---------------------------- MODULE Spec2Model ----------------------------
(***************************************************************************)
(* A model of the resolution engine of corpnorm-ai (src/corpnorm_utils.py): *)
(* name normalization, URL classification, candidate scoring, and the two   *)
(* resolvers CompanyAgent.process and CompanyAgent.process_premium.         *)
(*                                                                         *)
(* Python strings are modelled as sequences of one-character strings, so    *)
(* that substring tests, suffix tests and character classes are computed    *)
(* rather than assumed.  A Python value that may or may not be a string is  *)
(* a record [isStr, s].  Scores are integers in units of 1/100000.          *)
(***************************************************************************)
EXTENDS Integers, Sequences, FiniteSets, TLC

VARIABLES
  raw,      \* the raw company name handed to the engine (a Python value)
  nstage,   \* position of the normalization run: build / normalized / renormalized
  pieces,   \* how many pieces were appended to the raw name while building it
  norm,     \* strict_normalize_name(raw)
  renorm,   \* strict_normalize_name(norm)
  cand,     \* the candidate URL handed to the scorer (a Python value)
  cstage,   \* position of the scoring run: build / verified / scored
  cpieces,  \* how many pieces were appended to the candidate URL
  cname,    \* the normalized name the candidate is scored against
  cresp,    \* what the web server answers when the candidate's page is requested
  cres,     \* the result of verify_candidate
  cdom,     \* the result of match_domain_score
  mode,     \* the resolver that runs: free (process) or premium (process_premium)
  pc,       \* position of the resolver run
  guess_i,  \* index of the guess the loop of process is at
  best_score, best_cand, best_ind, best_reason,   \* the locals of process
  ddg_reply, \* what the free search backend answered
  urls,     \* what duckduckgo_search_api returned
  url_i,    \* index of the search URL the loop of process is at
  searches, \* how many times the free search backend was queried
  query,    \* the query it was given
  evals,    \* the calls of verify_candidate made for the record, in order
  fetches,  \* how many pages were requested
  search_data, \* what serpapi_search returned
  ai_reply, \* what the reasoning call did
  rec,      \* the record returned: its <<field, value>> pairs in order
  itext,    \* the text handed to infer_industry_from_text
  istage,   \* position of the inference run: build / inferred
  iwords,   \* how many words the text was built from
  ilabel    \* the result of infer_industry_from_text

normVars == <<raw, nstage, pieces, norm, renorm>>

scoreVars == <<cand, cstage, cpieces, cname, cresp, cres, cdom>>

bestVars == <<best_score, best_cand, best_ind, best_reason>>

searchVars == <<ddg_reply, urls, url_i, searches, query>>

premVars == <<search_data, ai_reply>>

procVars == <<mode, pc, guess_i, bestVars, searchVars, evals, fetches, premVars, rec>>

indVars == <<itext, istage, iwords, ilabel>>

vars == <<normVars, scoreVars, procVars, indVars>>

-----------------------------------------------------------------------------
(* Python values and character classes                                      *)

PyStr(s) == [isStr |-> TRUE, s |-> s]

NonStr == [isStr |-> FALSE, s |-> <<>>]

LowerLetters ==
  <<"a","b","c","d","e","f","g","h","i","j","k","l","m",
    "n","o","p","q","r","s","t","u","v","w","x","y","z">>

UpperLetters ==
  <<"A","B","C","D","E","F","G","H","I","J","K","L","M",
    "N","O","P","Q","R","S","T","U","V","W","X","Y","Z">>

Digits == <<"0","1","2","3","4","5","6","7","8","9">>

Range(f) == {f[i] : i \in DOMAIN f}

\* the class [A-Za-z0-9 ] of the regular expression in strict_normalize_name
AllowedChar(c) ==
  c \in Range(LowerLetters) \cup Range(UpperLetters) \cup Range(Digits) \cup {" "}

\* the class \s restricted to the characters of the model
WhiteChar(c) == c \in {" ", "\t", "\n"}

UpperChar(c) ==
  IF c \in Range(LowerLetters)
  THEN UpperLetters[CHOOSE i \in DOMAIN LowerLetters : LowerLetters[i] = c]
  ELSE c

LowerChar(c) ==
  IF c \in Range(UpperLetters)
  THEN LowerLetters[CHOOSE i \in DOMAIN UpperLetters : UpperLetters[i] = c]
  ELSE c

Upper(s) == [i \in DOMAIN s |-> UpperChar(s[i])]

Lower(s) == [i \in DOMAIN s |-> LowerChar(s[i])]

\* s[:n]
Take(s, n) == SubSeq(s, 1, n)

\* s[n:]  (n counted from 0 as in Python)
Drop(s, n) == SubSeq(s, n + 1, Len(s))

StartsWith(s, p) == Len(p) <= Len(s) /\ Take(s, Len(p)) = p

EndsWith(s, p) == Len(p) <= Len(s) /\ Drop(s, Len(s) - Len(p)) = p

\* Python's  needle in hay
Contains(hay, needle) ==
  \E i \in 0..(Len(hay) - Len(needle)) : SubSeq(hay, i + 1, i + Len(needle)) = needle

RECURSIVE LStrip(_)
LStrip(s) == IF s # <<>> /\ WhiteChar(Head(s)) THEN LStrip(Tail(s)) ELSE s

RECURSIVE RStrip(_)
RStrip(s) ==
  IF s # <<>> /\ WhiteChar(s[Len(s)]) THEN RStrip(Take(s, Len(s) - 1)) ELSE s

Strip(s) == RStrip(LStrip(s))

-----------------------------------------------------------------------------
(* 1. Normalization                                                         *)

LEGAL_SUFFIXES ==
  << <<" ","C","O"," ","L","T","D">>,
     <<" ","C","O">>,
     <<" ","L","T","D">>,
     <<" ","L","L","C">>,
     <<" ","L","L","P">>,
     <<" ","I","N","C">>,
     <<" ","C","O","R","P">>,
     <<" ","C","O","R","P","O","R","A","T","I","O","N">>,
     <<" ","S","D","N"," ","B","H","D">>,
     <<" ","P","V","T"," ","L","T","D">>,
     <<" ","P","V","T">>,
     <<" ","B","V">>,
     <<" ","G","M","B","H">>,
     <<" ","A","G">>,
     <<" ","S","A">>,
     <<" ","S","R","L">>,
     <<" ","S","A","S">>,
     <<" ","H","O","L","D","I","N","G"," ","A","G">>,
     <<" ","P","L","A","N","T">>,
     <<" ","F","A","C","T","O","R","Y">>,
     <<" ","B","R","A","N","C","H">>,
     <<" ","S"," ","P"," ","A">>,
     <<" ","A","B">>,
     <<" ","O","Y">>,
     <<" ","K"," ","K">>,
     <<" ","G"," ","K">>,
     <<" ","S","P","O","L"," ","S"," ","R"," ","O">> >>

\* text.replace("&", " AND ")
RECURSIVE ReplaceAmp(_)
ReplaceAmp(s) ==
  IF s = <<>> THEN <<>>
  ELSE IF Head(s) = "&" THEN <<" ","A","N","D"," ">> \o ReplaceAmp(Tail(s))
  ELSE <<Head(s)>> \o ReplaceAmp(Tail(s))

\* mutant: the run is dropped, not replaced by a space
SubDisallowed_Removes(s) == SelectSeq(s, AllowedChar)

RECURSIVE SkipDisallowed(_)
SkipDisallowed(s) ==
  IF s # <<>> /\ ~AllowedChar(Head(s)) THEN SkipDisallowed(Tail(s)) ELSE s

\* re.sub(r"[^A-Za-z0-9 ]+", " ", text): each run becomes one space
RECURSIVE SubDisallowed(_)
SubDisallowed(s) ==
  IF s = <<>> THEN <<>>
  ELSE IF AllowedChar(Head(s)) THEN <<Head(s)>> \o SubDisallowed(Tail(s))
  ELSE <<" ">> \o SubDisallowed(SkipDisallowed(Tail(s)))

RECURSIVE SkipWhite(_)
SkipWhite(s) == IF s # <<>> /\ WhiteChar(Head(s)) THEN SkipWhite(Tail(s)) ELSE s

\* re.sub(r"\s+", " ", text)
RECURSIVE SubWhite(_)
SubWhite(s) ==
  IF s = <<>> THEN <<>>
  ELSE IF WhiteChar(Head(s)) THEN <<" ">> \o SubWhite(SkipWhite(Tail(s)))
  ELSE <<Head(s)>> \o SubWhite(Tail(s))

\* lines 23-26: the text the strip loop starts from
CleanText(s) == Upper(Strip(SubWhite(SubDisallowed(ReplaceAmp(s)))))

\* one suffix tried: lines 31-33
StripOne(st, suffix) ==
  IF EndsWith(st.text, suffix)
  THEN [text |-> RStrip(Take(st.text, Len(st.text) - Len(suffix))), changed |-> TRUE]
  ELSE st

\* the for loop of lines 30-33 over suffixes[k..]
RECURSIVE StripPass(_, _, _)
StripPass(st, suffixes, k) ==
  IF k > Len(suffixes) THEN st
  ELSE LET after == StripOne(st, suffixes[k])
       IN  IF after.text = st.text
           THEN StripPass(st, suffixes, k + 1)
           ELSE StripPass(after, suffixes, k + 1)

\* mutant: a single pass over the suffix list, never repeated
StripLoop_OnePass(st, suffixes) ==
  StripPass([text |-> st.text, changed |-> FALSE], suffixes, 1)

\* the while loop of lines 27-33, entered with changed = True
RECURSIVE StripLoop(_, _)
StripLoop(st, suffixes) ==
  IF st.changed /\ st.text # <<>>
  THEN StripLoop(StripPass([text |-> st.text, changed |-> FALSE], suffixes, 1), suffixes)
  ELSE st

StripSuffixes(text, suffixes) ==
  StripLoop([text |-> text, changed |-> TRUE], suffixes).text

strict_normalize_name(text) ==
  IF ~text.isStr \/ text.s = <<>> THEN <<>>
  ELSE LET cleaned == CleanText(text.s)
       IN  IF cleaned = <<>> THEN <<>> ELSE StripSuffixes(cleaned, LEGAL_SUFFIXES)

-----------------------------------------------------------------------------
(* 2. URL validation and classification                                     *)

BLOCKED_OFFICIAL ==
  << <<"l","i","n","k","e","d","i","n",".","c","o","m">>,
     <<"f","a","c","e","b","o","o","k",".","c","o","m">>,
     <<"i","n","s","t","a","g","r","a","m",".","c","o","m">>,
     <<"t","w","i","t","t","e","r",".","c","o","m">>,
     <<"x",".","c","o","m">>,
     <<"y","o","u","t","u","b","e",".","c","o","m">>,
     <<"w","i","k","i","p","e","d","i","a",".","o","r","g">>,
     <<"g","l","a","s","s","d","o","o","r",".","c","o","m">>,
     <<"i","n","d","e","e","d",".","c","o","m">>,
     <<"y","e","l","l","o","w","p","a","g","e","s">>,
     <<"b","l","o","o","m","b","e","r","g",".","c","o","m">>,
     <<"d","n","b",".","c","o","m">>,
     <<"k","o","m","p","a","s","s",".","c","o","m">>,
     <<"z","o","o","m","i","n","f","o">>,
     <<"t","m","a","l","l",".","c","o","m">>,
     <<"t","a","o","b","a","o",".","c","o","m">>,
     <<"1","6","8","8",".","c","o","m">>,
     <<"g","o","d","a","d","d","y",".","c","o","m">>,
     <<"n","a","m","e","c","h","e","a","p",".","c","o","m">> >>

THIRD_PARTY_DOMAINS ==
  << <<"d","n","b",".","c","o","m">>,
     <<"p","i","t","c","h","b","o","o","k",".","c","o","m">>,
     <<"b","l","o","o","m","b","e","r","g",".","c","o","m">>,
     <<"t","a","i","w","a","n","t","r","a","d","e",".","c","o","m">>,
     <<"o","p","e","n","c","o","r","p","o","r","a","t","e","s",".","c","o","m">>,
     <<"l","e","i","-","l","o","o","k","u","p",".","c","o","m">>,
     <<"r","e","u","t","e","r","s",".","c","o","m">>,
     <<"z","o","o","m","i","n","f","o",".","c","o","m">>,
     <<"k","o","m","p","a","s","s",".","c","o","m">>,
     <<"t","e","c","h","c","r","u","n","c","h",".","c","o","m">> >>

HttpPrefix == <<"h","t","t","p",":","/","/">>

HttpsPrefix == <<"h","t","t","p","s",":","/","/">>

\* the smallest element of a non-empty set of integers
Min(S) == CHOOSE x \in S : \A y \in S : x <= y

clean_url(url) ==
  IF ~url.isStr THEN <<>>
  ELSE LET u == Strip(url.s)
       IN  IF u = <<>> \/ Contains(u, <<" ">>) \/ ~Contains(u, <<".">>) THEN <<>>
           ELSE IF StartsWith(u, HttpPrefix) \/ StartsWith(u, HttpsPrefix) THEN u
           ELSE HttpsPrefix \o u

\* urlparse: the characters a scheme may hold
SchemeChar(c) ==
  c \in Range(LowerLetters) \cup Range(UpperLetters) \cup Range(Digits) \cup {"+", "-", "."}

\* urlparse: the URL after its scheme and colon, if it has a scheme
AfterScheme(u) ==
  LET colons == {i \in 1..Len(u) : u[i] = ":"}
  IN  IF /\ colons # {}
         /\ Min(colons) > 1
         /\ u[1] \in Range(LowerLetters) \cup Range(UpperLetters)
         /\ \A j \in 1..(Min(colons) - 1) : SchemeChar(u[j])
      THEN Drop(u, Min(colons))
      ELSE u

\* urlparse(url).netloc: what follows "//" up to the first "/", "?" or "#".
\* (The URLs of the model hold no tab, line break or bracket.)
Netloc(u) ==
  LET r == AfterScheme(u)
  IN  IF StartsWith(r, <<"/","/">>)
      THEN LET body == Drop(r, 2)
               stops == {i \in 1..Len(body) : body[i] \in {"/", "?", "#"}}
           IN  IF stops = {} THEN body ELSE Take(body, Min(stops) - 1)
      ELSE <<>>

get_domain(url) == Lower(Netloc(url))

-----------------------------------------------------------------------------
(* 3. Search providers                                                      *)

\* a key that is absent from a reply, or holds an empty value
NoValue == PyStr(<<>>)

\* the truth value Python gives a value read from a reply
Truthy(v) == ~v.isStr \/ v.s # <<>>

\* for r in data.get("Results", []): r.get raises on an item that is no
\* dict, and the URLs appended before it are kept
RECURSIVE ResultUrls(_)
ResultUrls(items) ==
  IF items = <<>> THEN [urls |-> <<>>, raised |-> FALSE]
  ELSE IF ~Head(items).isDict THEN [urls |-> <<>>, raised |-> TRUE]
  ELSE LET rest == ResultUrls(Tail(items))
           first == IF Truthy(Head(items).FirstURL) THEN <<Head(items).FirstURL>> ELSE <<>>
       IN  [urls |-> first \o rest.urls, raised |-> rest.raised]

\* for topic in data.get("RelatedTopics", []): items that are no dict are skipped
RECURSIVE TopicUrls(_)
TopicUrls(items) ==
  IF items = <<>> THEN <<>>
  ELSE LET first == IF Head(items).isDict /\ Truthy(Head(items).FirstURL)
                    THEN <<Head(items).FirstURL>> ELSE <<>>
       IN  first \o TopicUrls(Tail(items))

\* duckduckgo_search_api: reply is what the backend answers to the query
duckduckgo_search_api(reply) ==
  IF reply.raises \/ ~reply.parsable \/ ~reply.isDict THEN <<>>
  ELSE LET abstract == IF Truthy(reply.AbstractURL) THEN <<reply.AbstractURL>> ELSE <<>>
           results == ResultUrls(reply.Results)
           topics == IF results.raised THEN <<>> ELSE TopicUrls(reply.RelatedTopics)
       IN  abstract \o results.urls \o topics

\* the results list serpapi_search builds from organic_results
OrganicResults(items) ==
  [i \in DOMAIN items |->
     [name |-> items[i].title, url |-> items[i].link, snippet |-> items[i].snippet]]

\* serpapi_search: reply is what the paid backend answers to the query
serpapi_search(reply) ==
  IF reply.raises \/ ~reply.parsable \/ ~reply.isDict
  THEN [kind |-> "error", error |-> reply.message, value |-> <<>>]
  ELSE IF reply.hasError
  THEN [kind |-> "error", error |-> reply.error, value |-> <<>>]
  ELSE IF \E i \in DOMAIN reply.organic_results : ~reply.organic_results[i].isDict
  THEN [kind |-> "error", error |-> reply.message, value |-> <<>>]
  ELSE [kind |-> "webPages", error |-> "", value |-> OrganicResults(reply.organic_results)]

-----------------------------------------------------------------------------
(* 4. Verification: scores are kept in units of 1/100000                    *)

\* the float 1.0; s tenths is s * ScoreOne \div 10
ScoreOne == 100000

Tenths(n) == (n * ScoreOne) \div 10

\* mutant: the smaller of the two scores
MaxOf_Smaller(a, b) == IF a >= b THEN b ELSE a

MaxOf(a, b) == IF a >= b THEN a ELSE b

\* the common run of a[i..ahi] and b[j..bhi] from their first characters
RECURSIVE CommonRun(_, _, _, _, _, _)
CommonRun(a, b, i, j, ahi, bhi) ==
  IF i <= ahi /\ j <= bhi /\ a[i] = b[j]
  THEN 1 + CommonRun(a, b, i + 1, j + 1, ahi, bhi)
  ELSE 0

\* difflib find_longest_match: the longest block, the earliest in a, then in b
LongestMatch(a, b, alo, ahi, blo, bhi) ==
  LET runs == [p \in (alo..ahi) \X (blo..bhi) |-> CommonRun(a, b, p[1], p[2], ahi, bhi)]
      k == CHOOSE n \in Range(runs) : \A m \in Range(runs) : m <= n
      i == Min({p[1] : p \in {q \in DOMAIN runs : runs[q] = k}})
      j == Min({p[2] : p \in {q \in DOMAIN runs : runs[q] = k /\ q[1] = i}})
  IN  [i |-> i, j |-> j, k |-> k]

\* difflib get_matching_blocks: the total size of the matching blocks
RECURSIVE MatchedChars(_, _, _, _, _, _)
MatchedChars(a, b, alo, ahi, blo, bhi) ==
  IF alo > ahi \/ blo > bhi THEN 0
  ELSE LET m == LongestMatch(a, b, alo, ahi, blo, bhi)
       IN  IF m.k = 0 THEN 0
           ELSE m.k + MatchedChars(a, b, alo, m.i - 1, blo, m.j - 1)
                    + MatchedChars(a, b, m.i + m.k, ahi, m.j + m.k, bhi)

\* difflib SequenceMatcher.ratio: 2.0 * matches / total length, 1.0 for two
\* empty strings; exact to 1/100000 for strings of up to 100 characters in all
fuzzy_match_score(str1, str2) ==
  LET a == Lower(str1)
      b == Lower(str2)
  IN  IF Len(a) + Len(b) = 0 THEN ScoreOne
      ELSE (2 * MatchedChars(a, b, 1, Len(a), 1, Len(b)) * ScoreOne) \div (Len(a) + Len(b))

StripWww(domain) ==
  IF StartsWith(domain, <<"w","w","w",".">>) THEN Drop(domain, 4) ELSE domain

\* s.split(".")[0]
FirstLabel(s) ==
  LET dots == {i \in 1..Len(s) : s[i] = "."}
  IN  IF dots = {} THEN s ELSE Take(s, Min(dots) - 1)

NotSpace(c) == c # " "

\* normalized_name.replace(" ", "").lower()
FlatName(normalized_name) == Lower(SelectSeq(normalized_name, NotSpace))

\* normalized_name.split(): the words; here the first of them, <<>> if none
FirstWord(s) ==
  LET t == LStrip(s)
      stops == {i \in 1..Len(t) : WhiteChar(t[i])}
  IN  IF stops = {} THEN t ELSE Take(t, Min(stops) - 1)

\* mutant: the length test of the third rule is dropped
match_domain_score_NoLength(url, normalized_name) ==
  LET domain == get_domain(url)
      core_domain == FirstLabel(StripWww(domain))
      flat_name == FlatName(normalized_name)
      first_word == Lower(FirstWord(normalized_name))
  IN  IF flat_name = core_domain THEN Tenths(10)
      ELSE IF Contains(core_domain, flat_name) THEN Tenths(9)
      ELSE IF Contains(flat_name, core_domain) THEN Tenths(8)
      ELSE IF first_word # <<>> /\ Len(first_word) > 3 /\ Contains(core_domain, first_word)
           THEN Tenths(7)
      ELSE 0

match_domain_score(url, normalized_name) ==
  LET domain == get_domain(url)
      core_domain == FirstLabel(StripWww(domain))
      flat_name == FlatName(normalized_name)
      first_word == Lower(FirstWord(normalized_name))
  IN  IF flat_name = core_domain THEN Tenths(10)
      ELSE IF Contains(core_domain, flat_name) THEN Tenths(9)
      ELSE IF Contains(flat_name, core_domain) /\ Len(core_domain) > 3 THEN Tenths(8)
      ELSE IF first_word # <<>> /\ Len(first_word) > 3 /\ Contains(core_domain, first_word)
           THEN Tenths(7)
      ELSE 0

\* mutant: the status of the answer is not looked at
fetch_page_metadata_AnyStatus(resp) ==
  IF resp.raises
  THEN [error |-> TRUE, title |-> <<>>, description |-> <<>>, h1 |-> <<>>, body |-> <<>>]
  ELSE [error |-> FALSE, title |-> Strip(resp.title), description |-> Strip(resp.description),
        h1 |-> Strip(resp.h1), body |-> Strip(resp.body)]

\* The answer of the web server to the page request, as fetch_page_metadata
\* reads it: the request raised (timeout, DNS, TLS), or a status code and the
\* texts its patterns extract from the page (title, description, h1, body).
fetch_page_metadata(resp) ==
  IF resp.raises \/ resp.status # 200
  THEN [error |-> TRUE, title |-> <<>>, description |-> <<>>, h1 |-> <<>>, body |-> <<>>]
  ELSE [error |-> FALSE, title |-> Strip(resp.title), description |-> Strip(resp.description),
        h1 |-> Strip(resp.h1), body |-> Strip(resp.body)]

-----------------------------------------------------------------------------
(* 5. Industry inference                                                    *)

INDUSTRY_KEYWORDS ==
  << [kw |-> <<"s","e","m","i","c","o","n","d","u","c","t","o","r">>, label |-> "Semiconductors"],
     [kw |-> <<"p","c","b">>, label |-> "PCB manufacturing"],
     [kw |-> <<"c","o","n","n","e","c","t","o","r">>, label |-> "Connectors"],
     [kw |-> <<"c","a","b","l","e">>, label |-> "Cables & Wires"],
     [kw |-> <<"w","i","r","e">>, label |-> "Cables & Wires"],
     [kw |-> <<"e","l","e","c","t","r","o","n","i","c"," ","c","o","m","p","o","n","e","n","t">>, label |-> "Electronic components"],
     [kw |-> <<"f","i","b","e","r">>, label |-> "Optical fiber solutions"],
     [kw |-> <<"f","a","s","t","e","n","e","r">>, label |-> "Fasteners manufacturing"],
     [kw |-> <<"m","a","g","n","e","t">>, label |-> "Magnetic components"],
     [kw |-> <<"c","o","o","l","i","n","g">>, label |-> "Cooling solutions"],
     [kw |-> <<"m","o","t","o","r">>, label |-> "Electric motors"],
     [kw |-> <<"a","u","t","o","m","a","t","i","o","n">>, label |-> "Industrial automation"],
     [kw |-> <<"m","a","c","h","i","n","e","r","y">>, label |-> "Industrial machinery"],
     [kw |-> <<"l","o","g","i","s","t","i","c">>, label |-> "Logistics services"],
     [kw |-> <<"s","o","f","t","w","a","r","e">>, label |-> "Software solutions"],
     [kw |-> <<"c","o","n","s","u","l","t">>, label |-> "Business consulting"],
     [kw |-> <<"a","u","t","o","m","o","t","i","v","e">>, label |-> "Automotive parts"],
     [kw |-> <<"p","l","a","s","t","i","c">>, label |-> "Plastic manufacturing"],
     [kw |-> <<"r","u","b","b","e","r">>, label |-> "Rubber products"],
     [kw |-> <<"d","i","s","p","l","a","y">>, label |-> "Display modules"],
     [kw |-> <<"s","e","n","s","o","r">>, label |-> "Sensors"],
     [kw |-> <<"l","e","d">>, label |-> "LED lighting"],
     [kw |-> <<"m","a","n","u","f","a","c","t","u","r">>, label |-> "Manufacturing (General)"],
     [kw |-> <<"s","u","p","p","l","i","e","r"," ","o","f">>, label |-> "Industrial Supply"],
     [kw |-> <<"d","i","s","t","r","i","b","u","t","o","r">>, label |-> "Distribution"],
     [kw |-> <<"p","r","o","d","u","c","t","i","o","n">>, label |-> "Manufacturing (General)"],
     [kw |-> <<"a","s","s","e","m","b","l","y">>, label |-> "Manufacturing (General)"],
     [kw |-> <<"t","e","c","h","n","o","l","o","g","y">>, label |-> "Technology"],
     [kw |-> <<"s","o","l","u","t","i","o","n">>, label |-> "Technology Solutions"] >>

\* mutant: the last keyword of the list that occurs gives the label
infer_industry_from_text_LastMatch(text) ==
  IF text = <<>> THEN ""
  ELSE LET lowered == Lower(text)
           hits == {i \in DOMAIN INDUSTRY_KEYWORDS : Contains(lowered, INDUSTRY_KEYWORDS[i].kw)}
       IN  IF hits = {} THEN "" ELSE INDUSTRY_KEYWORDS[CHOOSE i \in hits : \A j \in hits : j <= i].label

infer_industry_from_text(text) ==
  IF text = <<>> THEN ""
  ELSE LET lowered == Lower(text)
           hits == {i \in DOMAIN INDUSTRY_KEYWORDS : Contains(lowered, INDUSTRY_KEYWORDS[i].kw)}
       IN  IF hits = {} THEN "" ELSE INDUSTRY_KEYWORDS[Min(hits)].label

-----------------------------------------------------------------------------
(* 6. The agent: verify_candidate                                           *)

parked_keywords ==
  << <<"d","o","m","a","i","n"," ","f","o","r"," ","s","a","l","e">>,
     <<"b","u","y"," ","t","h","i","s"," ","d","o","m","a","i","n">>,
     <<"g","o","d","a","d","d","y">>,
     <<"n","a","m","e","c","h","e","a","p">>,
     <<"p","a","r","k","e","d">> >>

TitleTailWords ==
  { <<"h","o","m","e">>, <<"o","f","f","i","c","i","a","l">>,
    <<"w","e","l","c","o","m","e">>, <<"i","n","d","e","x">> }

\* re.sub(r"(?i)\s*[-|]\s*(home|official|welcome|index).*", "", title): the
\* title is cut where the whitespace before the first such separator starts.
\* (The titles of the model hold no line break, so ".*" runs to the end.)
CleanTitle(title) ==
  LET seps == {q \in 1..Len(title) :
                 /\ title[q] \in {"-", "|"}
                 /\ \E w \in TitleTailWords :
                      StartsWith(Lower(LStrip(Drop(title, q))), w)}
      q1 == Min(seps)
      kept == RStrip(Take(title, q1 - 1))
  IN  IF seps = {} THEN title ELSE kept

DigitChar(d) == Digits[d + 1]

\* f"{x:.2f}" of a score: rounded to hundredths, a tie to the even digit
Fmt2(x) ==
  LET q == x \div (ScoreOne \div 100)
      r == x % (ScoreOne \div 100)
      half == ScoreOne \div 200
      h == IF r > half \/ (r = half /\ q % 2 = 1) THEN q + 1 ELSE q
  IN  DigitChar(h \div 100) \o "." \o DigitChar((h \div 10) % 10) \o DigitChar(h % 10)

\* f"{x:.1f}" of a score
Fmt1(x) ==
  LET q == x \div (ScoreOne \div 10)
      r == x % (ScoreOne \div 10)
      half == ScoreOne \div 20
      h == IF r > half \/ (r = half /\ q % 2 = 1) THEN q + 1 ELSE q
  IN  DigitChar(h \div 10) \o "." \o DigitChar(h % 10)

Space == <<" ">>

\* mutant: only a host equal to a blocked entry is blocked
IsBlocked_ExactHost(domain) ==
  \E i \in DOMAIN BLOCKED_OFFICIAL : domain = BLOCKED_OFFICIAL[i]

\* any(b in domain for b in BLOCKED_OFFICIAL)
IsBlocked(domain) ==
  \E i \in DOMAIN BLOCKED_OFFICIAL : Contains(domain, BLOCKED_OFFICIAL[i])

\* any(tp in domain for tp in THIRD_PARTY_DOMAINS)
IsThirdParty(domain) ==
  \E i \in DOMAIN THIRD_PARTY_DOMAINS : Contains(domain, THIRD_PARTY_DOMAINS[i])

\* verify_candidate: resp is what the web server would answer if the page is
\* requested; fetched tells whether fetch_page_metadata was called
verify_candidate(url, normalized_name, resp) ==
  LET u == clean_url(url)
      domain == get_domain(u)
  IN
  IF u = <<>>
  THEN [score |-> 0, industry |-> "", reason |-> "Bad URL", fetched |-> FALSE]
  ELSE IF IsBlocked(domain)
  THEN [score |-> Tenths(1), industry |-> "", reason |-> "Blocked", fetched |-> FALSE]
  ELSE IF IsThirdParty(domain)
  THEN [score |-> Tenths(2), industry |-> "", reason |-> "Third Party", fetched |-> FALSE]
  ELSE
    LET domain_score == match_domain_score(u, normalized_name)
        meta == fetch_page_metadata(resp)
        title == meta.title
        blob_lower == Lower(title \o Space \o meta.description)
    IN
    IF \E i \in DOMAIN parked_keywords : Contains(blob_lower, parked_keywords[i])
    THEN [score |-> 0, industry |-> "", reason |-> "Parked", fetched |-> TRUE]
    ELSE
      LET title_score ==
            IF meta.error THEN 0
            ELSE fuzzy_match_score(normalized_name, CleanTitle(title))
          top == MaxOf(domain_score, title_score)
          final_score ==
            IF domain_score > Tenths(7) /\ ~meta.error THEN MaxOf(top, Tenths(9))
            ELSE IF domain_score > Tenths(4) /\ title_score > Tenths(4)
                 THEN MaxOf(top, Tenths(8))
            ELSE top
          blob == title \o Space \o meta.description \o Space \o meta.h1 \o Space \o meta.body
          inferred == infer_industry_from_text(blob)
          industry ==
            IF inferred = "" /\ final_score > Tenths(6)
            THEN "Unclassified (Website Found)"
            ELSE inferred
      IN  [score |-> final_score, industry |-> industry,
           reason |-> "S:" \o Fmt2(final_score) \o " (D:" \o Fmt1(domain_score) \o ")",
           fetched |-> TRUE]

NoResponse ==
  [raises |-> TRUE, status |-> 0, title |-> <<>>, description |-> <<>>,
   h1 |-> <<>>, body |-> <<>>]

NoResult == [score |-> 0, industry |-> "", reason |-> "", fetched |-> FALSE]

-----------------------------------------------------------------------------
(* 7. The agent: ask_openai, process_premium, process                       *)

\* data.get(key, default) and data.setdefault(key, default) followed by data[key]
Get(data, key, default) == IF key \in data.has THEN data[key] ELSE default

\* mutant: the name the reasoning call supplies is passed on as it is
ask_openai_NameAsSupplied(raw_name, reply) ==
  IF reply.kind = "object"
  THEN [normalized |-> Get(reply.data, "normalized_name", raw_name).s,
        website |-> Get(reply.data, "website", NoValue),
        industry |-> Get(reply.data, "industry", ""),
        third_party |-> Get(reply.data, "third_party_link", NoValue),
        remark |-> Get(reply.data, "remark", "Verified by OpenAI"),
        confidence |-> "High (AI)"]
  ELSE [normalized |-> strict_normalize_name(raw_name),
        website |-> NoValue, industry |-> "", third_party |-> NoValue,
        remark |-> "AI Error: " \o reply.message, confidence |-> "0"]

\* mutant: the fallback keeps the raw name as it was given
ask_openai_RawFallback(raw_name, reply) ==
  IF reply.kind = "object"
  THEN [normalized |-> strict_normalize_name(Get(reply.data, "normalized_name", raw_name)),
        website |-> Get(reply.data, "website", NoValue),
        industry |-> Get(reply.data, "industry", ""),
        third_party |-> Get(reply.data, "third_party_link", NoValue),
        remark |-> Get(reply.data, "remark", "Verified by OpenAI"),
        confidence |-> "High (AI)"]
  ELSE [normalized |-> raw_name.s,
        website |-> NoValue, industry |-> "", third_party |-> NoValue,
        remark |-> "AI Error: " \o reply.message, confidence |-> "0"]

\* ask_openai: reply is what the reasoning call does: it raises, or its
\* content does not parse, or parses to something that is no object (the
\* message is the text of the exception), or parses to an object
ask_openai(raw_name, reply) ==
  IF reply.kind = "object"
  THEN [normalized |-> strict_normalize_name(Get(reply.data, "normalized_name", raw_name)),
        website |-> Get(reply.data, "website", NoValue),
        industry |-> Get(reply.data, "industry", ""),
        third_party |-> Get(reply.data, "third_party_link", NoValue),
        remark |-> Get(reply.data, "remark", "Verified by OpenAI"),
        confidence |-> "High (AI)"]
  ELSE [normalized |-> strict_normalize_name(raw_name),
        website |-> NoValue, industry |-> "", third_party |-> NoValue,
        remark |-> "AI Error: " \o reply.message, confidence |-> "0"]

\* the record both resolvers return: its fields in the order they are written
OutputRecord(raw_name, normalized, website, industry, third_party, remark, confidence) ==
  << <<"Raw Company Name", raw_name>>,
     <<"Normalized Company Name", normalized>>,
     <<"Website", website>>,
     <<"Industry", industry>>,
     <<"Third Party Data Source Link", third_party>>,
     <<"Remark", remark>>,
     <<"Confidence Score", confidence>> >>

\* mutant: the record of an invalid name carries all the fields
InvalidRecord_AllFields(raw_name) ==
  OutputRecord(raw_name, <<>>, NoValue, "", NoValue, "Invalid", "")

\* process, line 284: the record returned for a name that normalizes to ""
InvalidRecord(raw_name) ==
  << <<"Raw Company Name", raw_name>>, <<"Remark", "Invalid">> >>

\* mutant: the bare host is tried before the www host
Guesses_BareFirst(name) ==
  LET guess_domain == Lower(SelectSeq(name, NotSpace))
  IN  << PyStr(HttpsPrefix \o guess_domain \o <<".","c","o","m">>),
         PyStr(HttpsPrefix \o <<"w","w","w",".">> \o guess_domain \o <<".","c","o","m">>) >>

\* guesses = [f"https://www.{guess_domain}.com", f"https://{guess_domain}.com"]
Guesses(name) ==
  LET guess_domain == Lower(SelectSeq(name, NotSpace))
  IN  << PyStr(HttpsPrefix \o <<"w","w","w",".">> \o guess_domain \o <<".","c","o","m">>),
         PyStr(HttpsPrefix \o guess_domain \o <<".","c","o","m">>) >>

\* urls[:3]
FirstThree(list) == SubSeq(list, 1, Min({3, Len(list)}))

\* mutant: any positive best score populates Website
Official_AnyScore(score, candidate) ==
  IF score > 0 THEN candidate ELSE NoValue

\* mutant: a best score of exactly 0.5 does not populate Website
Official_Strict(score, candidate) ==
  IF score > Tenths(5) THEN candidate ELSE NoValue

\* official = best_cand if best_score >= 0.5 else ""
Official(score, candidate) ==
  IF score >= Tenths(5) THEN candidate ELSE NoValue

\* what the run remembers of one call of verify_candidate
Evaluation(url, res, resp, stage) ==
  [url |-> url, score |-> res.score, industry |-> res.industry, stage |-> stage,
   fetched |-> res.fetched,
   page_ok |-> res.fetched /\ ~resp.raises /\ resp.status = 200]

NoAiReply ==
  [kind |-> "none", message |-> "",
   data |-> [has |-> {}, normalized_name |-> NoValue, website |-> NoValue,
             industry |-> "", third_party_link |-> NoValue, remark |-> ""]]

NoSearchData == [kind |-> "none", error |-> "", value |-> <<>>]

\* the free search backend was not asked yet
NoSearchReply ==
  [raises |-> FALSE, parsable |-> TRUE, isDict |-> TRUE, AbstractURL |-> NoValue,
   Results |-> <<>>, RelatedTopics |-> <<>>]

\* the values the variables of a resolver run hold before it has acted
ProcFresh ==
  /\ guess_i = 1
  /\ best_score = 0
  /\ best_cand = NoValue
  /\ best_ind = ""
  /\ best_reason = ""
  /\ ddg_reply = NoSearchReply
  /\ urls = <<>>
  /\ url_i = 1
  /\ searches = 0
  /\ query = <<>>
  /\ evals = <<>>
  /\ fetches = 0
  /\ search_data = NoSearchData
  /\ ai_reply = NoAiReply
  /\ rec = <<>>

ProcIdle ==
  /\ mode = "idle"
  /\ pc = "idle"
  /\ ProcFresh

\* the variables of a run that is not the one under way
NormIdle ==
  /\ raw = NonStr
  /\ nstage = "idle"
  /\ pieces = 0
  /\ norm = <<>>
  /\ renorm = <<>>

ScoreIdle ==
  /\ cand = NonStr
  /\ cstage = "idle"
  /\ cpieces = 0
  /\ cname = <<>>
  /\ cresp = NoResponse
  /\ cres = NoResult
  /\ cdom = 0

IndIdle ==
  /\ itext = <<>>
  /\ istage = "idle"
  /\ iwords = 0
  /\ ilabel = ""

-----------------------------------------------------------------------------
(* Raw names the normalizer is run on: a seed name extended by pieces       *)

MaxPieces == 2

SeedNames ==
  { <<>>,
    <<"A","c","m","e">>,
    <<"A"," ","&"," ","B"," ","I","n","c">>,
    <<"A","c","m","e"," ","C","o"," ","L","t","d">>,
    <<"A","c","m","e"," ","H","o","l","d","i","n","g"," ","A","G">>,
    <<"S","a","m","s","u","n","g"," ","E","l","e","c","t","r","o","-",
      "M","e","c","h","a","n","i","c","s"," ","C","o",".",","," ","L","t","d",".">> }

NamePieces ==
  { <<" ">>, <<"&">>, <<".">>, <<"\t">>, <<"b">>, <<"1">>,
    <<" ","C","o">>, <<" ","L","t","d">>, <<" ","I","n","c">>, <<" ","A","G">> }

NormInit ==
  /\ raw \in {PyStr(s) : s \in SeedNames} \cup {NonStr}
  /\ nstage = "build"
  /\ pieces = 0
  /\ norm = <<>>
  /\ renorm = <<>>
  /\ ScoreIdle
  /\ ProcIdle
  /\ IndIdle

AppendPiece ==
  /\ nstage = "build"
  /\ raw.isStr
  /\ pieces < MaxPieces
  /\ \E p \in NamePieces : raw' = PyStr(raw.s \o p)
  /\ pieces' = pieces + 1
  /\ UNCHANGED <<nstage, norm, renorm, scoreVars, indVars, procVars>>

Normalize ==
  /\ nstage = "build"
  /\ norm' = strict_normalize_name(raw)
  /\ nstage' = "normalized"
  /\ UNCHANGED <<raw, pieces, renorm, scoreVars, indVars, procVars>>

Renormalize ==
  /\ nstage = "normalized"
  /\ renorm' = strict_normalize_name(PyStr(norm))
  /\ nstage' = "renormalized"
  /\ UNCHANGED <<raw, pieces, norm, scoreVars, indVars, procVars>>

NormNext == AppendPiece \/ Normalize \/ Renormalize

SpecNorm == NormInit /\ [][NormNext]_vars

-----------------------------------------------------------------------------
(* Candidates the scorer is run on: a seed URL extended by pieces           *)

MaxUrlPieces == 1

SeedUrls ==
  { <<"h","t","t","p","s",":","/","/","a","c","m","e","c","o","r","p">>,
    <<"h","t","t","p","s",":","/","/","w","w","w",".","a","c","m","e","c","o","r","p">>,
    <<"h","t","t","p","s",":","/","/","a","c","m","e">>,
    <<"a","c","m","e">>,
    <<"h","t","t","p","s",":","/","/","a","c">>,
    <<"h","t","t","p","s",":","/","/","w","w","w",".","l","i","n","k","e","d","i","n">>,
    <<"h","t","t","p","s",":","/","/","f","e","d","e","x">>,
    <<"h","t","t","p","s",":","/","/","d","n","b">>,
    <<"h","t","t","p","s",":","/","/","w","w","w",".","r","e","u","t","e","r","s">>,
    <<"h","t","t","p","s",":","/","/","w","w","w">>,
    <<"n","o","t"," ","a"," ","u","r","l">> }

UrlPieces ==
  { <<".","c","o","m">>,
    <<"i","n","d","u","s","t","r","i","e","s",".","c","o","m">>,
    <<"-","g","l","o","b","a","l",".","c","o","m">>,
    <<".","c","o","m","/","c","o","m","p","a","n","y","/","a","c","m","e">> }

ScoreNames ==
  { <<>>, <<"A","C","M","E"," ","C","O","R","P">>, <<"A","C","M","E">>, <<"F","E","D","E","X">> }

\* answers of the web server: the request raises, a 404, and pages
PageResponses ==
  { NoResponse,
    [raises |-> FALSE, status |-> 404, title |-> <<>>, description |-> <<>>,
     h1 |-> <<>>, body |-> <<>>],
    [raises |-> FALSE, status |-> 200, title |-> <<"A","c","m","e"," ","C","o","r","p"," ","-"," ","H","o","m","e">>,
     description |-> <<"s","e","m","i","c","o","n","d","u","c","t","o","r"," ","m","a","k","e","r">>, h1 |-> <<>>, body |-> <<>>],
    [raises |-> FALSE, status |-> 200, title |-> <<"D","o","m","a","i","n"," ","f","o","r"," ","s","a","l","e">>,
     description |-> <<>>, h1 |-> <<>>, body |-> <<>>],
    [raises |-> FALSE, status |-> 200, title |-> <<"a","c","x","x">>,
     description |-> <<>>, h1 |-> <<>>, body |-> <<"l","e","d"," ","l","i","g","h","t","s">>],
    [raises |-> FALSE, status |-> 200, title |-> <<"A","c","m","e">>,
     description |-> <<>>, h1 |-> <<>>, body |-> <<>>] }

ScoreInit ==
  /\ cand \in {PyStr(s) : s \in SeedUrls} \cup {NonStr}
  /\ cstage = "build"
  /\ cpieces = 0
  /\ cname = <<>>
  /\ cresp = NoResponse
  /\ cres = NoResult
  /\ cdom = 0
  /\ NormIdle
  /\ ProcIdle
  /\ IndIdle

AppendUrlPiece ==
  /\ cstage = "build"
  /\ cand.isStr
  /\ cpieces < MaxUrlPieces
  /\ \E p \in UrlPieces : cand' = PyStr(cand.s \o p)
  /\ cpieces' = cpieces + 1
  /\ UNCHANGED <<cstage, cname, cresp, cres, cdom, normVars, procVars, indVars>>

\* CompanyAgent.verify_candidate(cand, name), the server answering resp
Verify ==
  /\ cstage = "build"
  /\ \E name \in ScoreNames, resp \in PageResponses :
       /\ cname' = name
       /\ cresp' = resp
       /\ cres' = verify_candidate(cand, name, resp)
  /\ cstage' = "verified"
  /\ UNCHANGED <<cand, cpieces, cdom, normVars, procVars, indVars>>

\* match_domain_score(cand, name)
ScoreDomain ==
  /\ cstage = "build"
  /\ cand.isStr
  /\ \E name \in ScoreNames :
       /\ cname' = name
       /\ cdom' = match_domain_score(cand.s, name)
  /\ cstage' = "scored"
  /\ UNCHANGED <<cand, cpieces, cresp, cres, normVars, procVars, indVars>>

ScoreNext == AppendUrlPiece \/ Verify \/ ScoreDomain

SpecScore == ScoreInit /\ [][ScoreNext]_vars

-----------------------------------------------------------------------------
(* The resolvers, run on a raw name against the answers of the network      *)

MaxUrls == 4

\* raw names handed to the resolvers
ProcNames ==
  { PyStr(<<>>), PyStr(<<" "," ">>), PyStr(<<"?","!">>), PyStr(<<"A","c","m","e"," ","C","o","r","p">>), PyStr(<<"F","e","d","E","x">>), NonStr }

\* answers of the web server to a page request
ParkedPage ==
  [raises |-> FALSE, status |-> 200, title |-> <<"D","o","m","a","i","n"," ","f","o","r"," ","s","a","l","e">>,
   description |-> <<>>, h1 |-> <<>>, body |-> <<>>]

LedPage ==
  [raises |-> FALSE, status |-> 200, title |-> <<"a","c","x","x">>,
   description |-> <<>>, h1 |-> <<>>, body |-> <<"l","e","d"," ","l","i","g","h","t","s">>]

PlainPage ==
  [raises |-> FALSE, status |-> 200, title |-> <<"f","x","x">>,
   description |-> <<>>, h1 |-> <<>>, body |-> <<>>]

\* an answer with a status other than 200 whose text would match a name
ErrorPage ==
  [raises |-> FALSE, status |-> 404, title |-> <<"a","c","x","x">>,
   description |-> <<>>, h1 |-> <<>>, body |-> <<>>]

ProcPages == {NoResponse, ErrorPage, ParkedPage, LedPage, PlainPage}

\* URLs the free search backend may return
SearchPool ==
  { PyStr(<<"h","t","t","p","s",":","/","/","o","t","h","e","r",".","c","o","m">>),
    PyStr(<<"l","i","n","k","e","d","i","n",".","c","o","m","/","i","n","/","x">>),
    PyStr(<<"h","t","t","p","s",":","/","/","f","e","d","e","x","-","g","l","o","b","a","l",".","c","o","m">>) }

\* the lists of at most n URLs of the pool
UrlLists(n) == UNION {[1..k -> SearchPool] : k \in 0..n}

ResultItem(u) == [isDict |-> TRUE, FirstURL |-> u]

NotADict == [isDict |-> FALSE, FirstURL |-> NoValue]

\* a reply of the free search backend that holds the URLs of list: the first
\* as AbstractURL, the second in Results, the others in RelatedTopics
ReplyOf(list) ==
  [raises |-> FALSE, parsable |-> TRUE, isDict |-> TRUE,
   AbstractURL |-> IF list = <<>> THEN NoValue ELSE list[1],
   Results |-> IF Len(list) < 2 THEN <<>> ELSE <<ResultItem(list[2])>>,
   RelatedTopics |-> [i \in 1..(Len(list) - 2) |-> ResultItem(list[i + 2])]]

Unreachable ==
  [raises |-> TRUE, parsable |-> FALSE, isDict |-> FALSE, AbstractURL |-> NoValue,
   Results |-> <<>>, RelatedTopics |-> <<>>]

Unparsable ==
  [raises |-> FALSE, parsable |-> FALSE, isDict |-> FALSE, AbstractURL |-> NoValue,
   Results |-> <<>>, RelatedTopics |-> <<>>]

\* a reply whose Results holds an item that is no dict after a good one
BrokenResults ==
  [raises |-> FALSE, parsable |-> TRUE, isDict |-> TRUE,
   AbstractURL |-> NoValue,
   Results |-> << ResultItem(PyStr(<<"h","t","t","p","s",":","/","/","f","e","d","e","x","-","g","l","o","b","a","l",".","c","o","m">>)), NotADict,
                  ResultItem(PyStr(<<"h","t","t","p","s",":","/","/","o","t","h","e","r",".","c","o","m">>)) >>,
   RelatedTopics |-> << ResultItem(PyStr(<<"l","i","n","k","e","d","i","n",".","c","o","m","/","i","n","/","x">>)) >>]

\* a reply whose RelatedTopics holds a group, an item without URL and a URL
MixedTopics ==
  [raises |-> FALSE, parsable |-> TRUE, isDict |-> TRUE,
   AbstractURL |-> PyStr(<<"h","t","t","p","s",":","/","/","o","t","h","e","r",".","c","o","m">>),
   Results |-> << ResultItem(NoValue) >>,
   RelatedTopics |-> << NotADict, ResultItem(NoValue),
                        ResultItem(PyStr(<<"h","t","t","p","s",":","/","/","f","e","d","e","x","-","g","l","o","b","a","l",".","c","o","m">>)) >>]

SearchReplies ==
  {ReplyOf(l) : l \in UrlLists(MaxUrls)}
    \cup {Unreachable, Unparsable, BrokenResults, MixedTopics}

OrganicItem ==
  [isDict |-> TRUE, title |-> "Acme", link |-> "https://acme.com", snippet |-> "Acme makes things"]

\* answers of the paid search backend
SerpReplies ==
  { [raises |-> TRUE, parsable |-> FALSE, isDict |-> FALSE, hasError |-> FALSE,
     error |-> "", message |-> "timed out", organic_results |-> <<>>],
    [raises |-> FALSE, parsable |-> TRUE, isDict |-> TRUE, hasError |-> TRUE,
     error |-> "Invalid API key.", message |-> "", organic_results |-> <<>>],
    [raises |-> FALSE, parsable |-> TRUE, isDict |-> TRUE, hasError |-> FALSE,
     error |-> "", message |-> "", organic_results |-> <<OrganicItem>>] }

\* what the reasoning call may do
AiReplies ==
  { [kind |-> "raises", message |-> "Connection error.", data |-> NoAiReply.data],
    [kind |-> "unparsable", message |-> "Expecting value: line 1 column 1 (char 0)",
     data |-> NoAiReply.data],
    [kind |-> "nonobject", message |-> "'list' object has no attribute 'setdefault'",
     data |-> NoAiReply.data],
    [kind |-> "object", message |-> "", data |-> NoAiReply.data],
    [kind |-> "object", message |-> "",
     data |-> [has |-> {"normalized_name"}, normalized_name |-> NonStr, website |-> NoValue,
               industry |-> "", third_party_link |-> NoValue, remark |-> ""]],
    [kind |-> "object", message |-> "",
     data |-> [has |-> {"normalized_name", "website", "industry", "third_party_link", "remark"},
               normalized_name |-> PyStr(<<"A","c","m","e"," ","H","o","l","d","i","n","g","s",","," ","I","n","c",".">>),
               website |-> PyStr(<<"h","t","t","p","s",":","/","/","a","c","m","e",".","c","o","m">>),
               industry |-> "Software",
               third_party_link |-> PyStr(<<"h","t","t","p","s",":","/","/","w","w","w",".","d","n","b",".","c","o","m","/","a","c","m","e">>),
               remark |-> "Matched"]] }

ProcInit ==
  /\ raw \in ProcNames
  /\ mode \in {"free", "premium"}
  /\ pc = "start"
  /\ nstage = "idle"
  /\ pieces = 0
  /\ norm = <<>>
  /\ renorm = <<>>
  /\ ScoreIdle
  /\ IndIdle
  /\ ProcFresh

\* process, lines 283-290: normalize, and return at once on an empty name
ProcessStart ==
  /\ mode = "free"
  /\ pc = "start"
  /\ norm' = strict_normalize_name(raw)
  /\ IF norm' = <<>>
     THEN rec' = InvalidRecord(raw) /\ pc' = "done"
     ELSE rec' = rec /\ pc' = "guess"
  /\ UNCHANGED <<raw, nstage, pieces, renorm, scoreVars, indVars, mode, guess_i, bestVars,
                 searchVars, evals, fetches, premVars>>

\* process, lines 292-296: what one turn of the loop over the guesses does
\* with the result res of verify_candidate(guess, norm)
GuessTurn(guess, res, resp) ==
  /\ evals' = Append(evals, Evaluation(guess, res, resp, "guess"))
  /\ fetches' = fetches + (IF res.fetched THEN 1 ELSE 0)
  /\ IF res.score > Tenths(7)
     THEN /\ best_score' = res.score
          /\ best_cand' = guess
          /\ best_ind' = res.industry
          /\ best_reason' = "Domain Guess"
          /\ guess_i' = guess_i
          /\ pc' = IF res.score < Tenths(7) THEN "search" ELSE "return"
     ELSE /\ UNCHANGED bestVars
          /\ guess_i' = IF guess_i < Len(Guesses(norm)) THEN guess_i + 1 ELSE guess_i
          /\ pc' = IF guess_i < Len(Guesses(norm)) THEN "guess"
                   ELSE IF best_score < Tenths(7) THEN "search"
                   ELSE "return"

\* process, lines 291-296: one turn of the loop over the guesses
TryGuess ==
  /\ pc = "guess"
  /\ \E resp \in ProcPages :
       GuessTurn(Guesses(norm)[guess_i],
                 verify_candidate(Guesses(norm)[guess_i], norm, resp), resp)
  /\ UNCHANGED <<normVars, scoreVars, indVars, mode, searchVars, premVars, rec>>

\* process, lines 297-298: the query of the free search backend
FreeSearch ==
  /\ pc = "search"
  /\ \E reply \in SearchReplies :
       LET found == duckduckgo_search_api(reply)
       IN  /\ ddg_reply' = reply
           /\ urls' = found
           /\ pc' = IF FirstThree(found) = <<>> THEN "return" ELSE "api"
  /\ query' = norm
  /\ searches' = searches + 1
  /\ url_i' = 1
  /\ UNCHANGED <<normVars, scoreVars, indVars, mode, guess_i, bestVars, evals, fetches, premVars, rec>>

\* process, lines 300-302: what one turn of the loop over urls[:3] does with
\* the result res of verify_candidate(url, norm)
UrlTurn(url, res, resp) ==
  /\ evals' = Append(evals, Evaluation(url, res, resp, "search"))
  /\ fetches' = fetches + (IF res.fetched THEN 1 ELSE 0)
  /\ IF res.score > best_score
     THEN /\ best_score' = res.score
          /\ best_cand' = url
          /\ best_ind' = res.industry
          /\ best_reason' = "API Match"
     ELSE UNCHANGED bestVars

\* process, lines 299-302: one turn of the loop over urls[:3]
TryUrl ==
  /\ pc = "api"
  /\ \E resp \in ProcPages :
       UrlTurn(FirstThree(urls)[url_i],
               verify_candidate(FirstThree(urls)[url_i], norm, resp), resp)
  /\ url_i' = url_i + 1
  /\ pc' = IF url_i = Len(FirstThree(urls)) THEN "return" ELSE "api"
  /\ UNCHANGED <<normVars, scoreVars, indVars, mode, guess_i, ddg_reply, urls, searches, query, premVars,
                 rec>>

\* process, lines 304-315: the record of a name that is not empty
ProcessReturn ==
  /\ pc = "return"
  /\ LET official == Official(best_score, best_cand)
         remark == IF Truthy(official)
                   THEN "Verified Official (" \o best_reason \o ")."
                   ELSE "Official site not found."
     IN  rec' = OutputRecord(raw, norm, official, best_ind, NoValue, remark, Fmt2(best_score))
  /\ pc' = "done"
  /\ UNCHANGED <<normVars, scoreVars, indVars, mode, guess_i, bestVars, searchVars, evals, fetches, premVars>>

\* process_premium, line 265: the paid search
PremiumSearch ==
  /\ mode = "premium"
  /\ pc = "start"
  /\ \E reply \in SerpReplies : search_data' = serpapi_search(reply)
  /\ pc' = "ai"
  /\ UNCHANGED <<normVars, scoreVars, indVars, mode, guess_i, bestVars, searchVars, evals, fetches,
                 ai_reply, rec>>

\* ask_openai, lines 229-233: json.dumps of the request runs before the try,
\* and raises TypeError on a raw name that JSON cannot hold (bytes, a set ...)
DumpsRaises ==
  /\ pc = "ai"
  /\ ~raw.isStr
  /\ pc' = "raised"
  /\ UNCHANGED <<normVars, scoreVars, indVars, mode, guess_i, bestVars, searchVars, evals, fetches,
                 premVars, rec>>

\* process_premium, lines 268-279: the reasoning call and the record
AskOpenAI ==
  /\ pc = "ai"
  /\ \E reply \in AiReplies :
       LET ai_res == ask_openai(raw, reply)
       IN  /\ ai_reply' = reply
           /\ rec' = OutputRecord(raw, ai_res.normalized, ai_res.website, ai_res.industry,
                                  ai_res.third_party, ai_res.remark, ai_res.confidence)
  /\ pc' = "done"
  /\ UNCHANGED <<normVars, scoreVars, indVars, mode, guess_i, bestVars, searchVars, evals, fetches,
                 search_data>>

ProcNext ==
  \/ ProcessStart
  \/ TryGuess
  \/ FreeSearch
  \/ TryUrl
  \/ ProcessReturn
  \/ PremiumSearch
  \/ DumpsRaises
  \/ AskOpenAI

SpecProc == ProcInit /\ [][ProcNext]_vars

-----------------------------------------------------------------------------
(* Texts the industry classifier is run on: words joined by spaces          *)

MaxWords == 2

IndWords ==
  { <<"S","e","m","i","c","o","n","d","u","c","t","o","r">>,
    <<"m","a","n","u","f","a","c","t","u","r","i","n","g">>,
    <<"T","e","c","h","n","o","l","o","g","y">>,
    <<"L","E","D">>,
    <<"S","o","l","u","t","i","o","n","s">>,
    <<"b","a","k","e","r","y">>,
    <<"C","a","b","l","e">>,
    <<"w","i","r","e"," ","h","a","r","n","e","s","s">> }

IndInit ==
  /\ itext = <<>>
  /\ istage = "build"
  /\ iwords = 0
  /\ ilabel = ""
  /\ NormIdle
  /\ ScoreIdle
  /\ ProcIdle

AppendWord ==
  /\ istage = "build"
  /\ iwords < MaxWords
  /\ \E w \in IndWords : itext' = IF itext = <<>> THEN w ELSE itext \o Space \o w
  /\ iwords' = iwords + 1
  /\ UNCHANGED <<istage, ilabel, normVars, scoreVars, procVars>>

\* infer_industry_from_text(itext)
Infer ==
  /\ istage = "build"
  /\ ilabel' = infer_industry_from_text(itext)
  /\ istage' = "inferred"
  /\ UNCHANGED <<itext, iwords, normVars, scoreVars, procVars>>

IndNext == AppendWord \/ Infer

SpecInd == IndInit /\ [][IndNext]_vars

-----------------------------------------------------------------------------
(* Claims about strict_normalize_name, checked under SpecNorm               *)

\* C3: strict_normalize_name is idempotent: normalizing the normalized name
\* again gives the normalized name, for every input.
C3_Idempotent == nstage = "renormalized" => renorm = norm

\* a name from which a suffix was stripped has been normalized a second time
C3_Witness ==
  /\ nstage = "renormalized"
  /\ raw.isStr
  /\ norm # <<>>
  /\ norm # CleanText(raw.s)

\* The steps of claim C8, written from the claim's words and not from the code.
C8_Indices(s) == [i \in 1..Len(s) |-> i]

\* step (1): every "&" becomes " AND "
RECURSIVE C8_Amp(_, _)
C8_Amp(s, i) ==
  IF i > Len(s) THEN <<>>
  ELSE (IF s[i] = "&" THEN <<" ","A","N","D"," ">> ELSE <<s[i]>>) \o C8_Amp(s, i + 1)

\* step (2) as the claim states it: the characters outside the class are removed
C8_RemoveOutside(s) == SelectSeq(s, AllowedChar)

\* step (2) as amended: each run of characters outside the class becomes one space
C8_RunsToSpace(s) ==
  LET first(i) == AllowedChar(s[i]) \/ i = 1 \/ AllowedChar(s[i - 1])
      idx == SelectSeq(C8_Indices(s), first)
  IN  [j \in 1..Len(idx) |-> IF AllowedChar(s[idx[j]]) THEN s[idx[j]] ELSE " "]

\* step (3): each run of whitespace becomes one space
C8_Collapse(s) ==
  LET first(i) == ~WhiteChar(s[i]) \/ i = 1 \/ ~WhiteChar(s[i - 1])
      idx == SelectSeq(C8_Indices(s), first)
  IN  [j \in 1..Len(idx) |-> IF WhiteChar(s[idx[j]]) THEN " " ELSE s[idx[j]]]

\* step (4): trim and upper-case
C8_TrimUpper(s) ==
  LET nonwhite == {i \in 1..Len(s) : ~WhiteChar(s[i])}
      lo == CHOOSE i \in nonwhite : \A j \in nonwhite : i <= j
      hi == CHOOSE i \in nonwhite : \A j \in nonwhite : j <= i
  IN  IF nonwhite = {} THEN <<>> ELSE Upper(SubSeq(s, lo, hi))

C8_TrimRight(s) ==
  LET nonwhite == {i \in 1..Len(s) : ~WhiteChar(s[i])}
      hi == CHOOSE i \in nonwhite : \A j \in nonwhite : j <= i
  IN  IF nonwhite = {} THEN <<>> ELSE SubSeq(s, 1, hi)

\* step (5): the text after the first k suffixes of the list were each
\* checked against the text as the strips before it left it
RECURSIVE C8_AfterSuffix(_, _)
C8_AfterSuffix(t, k) ==
  IF k = 0 THEN t
  ELSE LET p == C8_AfterSuffix(t, k - 1)
           n == Len(p) - Len(LEGAL_SUFFIXES[k])
       IN  IF n >= 0 /\ SubSeq(p, n + 1, Len(p)) = LEGAL_SUFFIXES[k]
           THEN C8_TrimRight(SubSeq(p, 1, n))
           ELSE p

\* full passes over the list, until a pass matches nothing
RECURSIVE C8_StripAll(_)
C8_StripAll(t) ==
  LET after == C8_AfterSuffix(t, Len(LEGAL_SUFFIXES))
  IN  IF after = t THEN t ELSE C8_StripAll(after)

C8_AsAmended(r) ==
  IF ~r.isStr \/ r.s = <<>> THEN <<>>
  ELSE LET cleaned == C8_TrimUpper(C8_Collapse(C8_RunsToSpace(C8_Amp(r.s, 1))))
       IN  IF cleaned = <<>> THEN <<>> ELSE C8_StripAll(cleaned)

C8_AsStated(r) ==
  IF ~r.isStr \/ r.s = <<>> THEN <<>>
  ELSE LET cleaned == C8_TrimUpper(C8_Collapse(C8_RemoveOutside(C8_Amp(r.s, 1))))
       IN  IF cleaned = <<>> THEN <<>> ELSE C8_StripAll(cleaned)

C8_AmpersandName == <<"A"," ","&"," ","B"," ","I","n","c">>

C8_SamsungName ==
  <<"S","a","m","s","u","n","g"," ","E","l","e","c","t","r","o","-",
    "M","e","c","h","a","n","i","c","s"," ","C","o",".",","," ","L","t","d",".">>

\* C8 (as amended): strict_normalize_name returns the result of (1) replacing
\* each "&" by " AND ", (2) replacing each run of characters outside
\* [A-Za-z0-9 ] by one space, (3) collapsing each run of whitespace to one
\* space, (4) trimming and upper-casing, (5) stripping legal-entity suffixes
\* until none matches; non-string or empty input gives the empty string, and
\* "A & B Inc" gives "A AND B".
C8_NormalizeSteps ==
  nstage = "normalized" =>
    /\ norm = C8_AsAmended(raw)
    /\ (~raw.isStr \/ raw.s = <<>>) => norm = <<>>
    /\ raw = PyStr(C8_AmpersandName) => norm = <<"A"," ","A","N","D"," ","B">>

\* a name with punctuation between letters and a compound suffix was normalized
C8_Witness ==
  /\ nstage = "normalized"
  /\ raw = PyStr(C8_SamsungName)
  /\ norm = <<"S","A","M","S","U","N","G"," ","E","L","E","C","T","R","O"," ",
              "M","E","C","H","A","N","I","C","S">>

\* C8 as stated: step (2) removes every character outside [A-Za-z0-9 ].
C8_RemovesOutsideChars == nstage = "normalized" => norm = C8_AsStated(raw)

RECURSIVE C9_Reverse(_)
C9_Reverse(s) == IF s = <<>> THEN <<>> ELSE C9_Reverse(Tail(s)) \o <<Head(s)>>

\* orders in which the entries of LEGAL_SUFFIXES may be tried
C9_SuffixOrders == {LEGAL_SUFFIXES, C9_Reverse(LEGAL_SUFFIXES)}

\* C9: the string left by the strip loop is the same whatever the order in
\* which the entries of LEGAL_SUFFIXES are tried; "Acme Co Ltd" gives "ACME".
C9_OrderIndependent ==
  (nstage = "normalized" /\ raw.isStr) =>
    /\ \A o \in C9_SuffixOrders : StripSuffixes(CleanText(raw.s), o) = norm
    /\ raw.s = <<"A","c","m","e"," ","C","o"," ","L","t","d">> => norm = <<"A","C","M","E">>

-----------------------------------------------------------------------------
(* Claims about the candidate scorer, checked under SpecScore               *)

C6_LinkedInUrl == <<"h","t","t","p","s",":","/","/","w","w","w",".","l","i","n","k","e","d","i","n",".","c","o","m","/","c","o","m","p","a","n","y","/","a","c","m","e">>

\* a page that, if it were fetched, would match the name "ACME CORP" fully
C6_MatchingPage ==
  [raises |-> FALSE, status |-> 200, title |-> <<"A","c","m","e"," ","C","o","r","p"," ","-"," ","H","o","m","e">>,
   description |-> <<"s","e","m","i","c","o","n","d","u","c","t","o","r"," ","m","a","k","e","r">>, h1 |-> <<>>, body |-> <<>>]

\* C6: for every valid candidate URL whose domain contains an entry of the
\* blocked-official list, verify_candidate returns score 0.1, reason
\* "Blocked" and an empty industry without fetching the page, whatever the
\* normalized name and the page are.
C6_BlockedShortCircuit ==
  (/\ cstage = "verified"
   /\ clean_url(cand) # <<>>
   /\ \E b \in Range(BLOCKED_OFFICIAL) : Contains(get_domain(clean_url(cand)), b))
  => /\ cres.score = ScoreOne \div 10
     /\ cres.reason = "Blocked"
     /\ cres.industry = ""
     /\ ~cres.fetched

\* a linkedin.com URL was verified against a page that matches the name
C6_Witness ==
  /\ cstage = "verified"
  /\ cand = PyStr(C6_LinkedInUrl)
  /\ cname = <<"A","C","M","E"," ","C","O","R","P">>
  /\ cresp = C6_MatchingPage
  /\ cres.reason = "Blocked"

\* The rules of claim C7, written from the claim's words.
C7_Core(host) ==
  LET h == IF Len(host) >= 4 /\ SubSeq(host, 1, 4) = <<"w","w","w",".">>
           THEN SubSeq(host, 5, Len(host)) ELSE host
      n == CHOOSE k \in 0..Len(h) :
             /\ \A i \in 1..k : h[i] # "."
             /\ (k < Len(h) => h[k + 1] = ".")
  IN  SubSeq(h, 1, n)

C7_Flat(name) == Lower(SelectSeq(name, NotSpace))

C7_FirstWord(name) ==
  LET n == CHOOSE k \in 0..Len(name) :
             /\ \A i \in 1..k : name[i] # " "
             /\ (k < Len(name) => name[k + 1] = " ")
  IN  Lower(SubSeq(name, 1, n))

C7_Within(x, y) == \E i \in 1..(Len(y) + 1), j \in 0..Len(y) : SubSeq(y, i, j) = x

C7_Rules(host, name) ==
  CASE C7_Flat(name) = C7_Core(host) -> 10
    [] C7_Flat(name) # C7_Core(host) /\ C7_Within(C7_Flat(name), C7_Core(host)) -> 9
    [] /\ ~C7_Within(C7_Flat(name), C7_Core(host))
       /\ C7_Within(C7_Core(host), C7_Flat(name)) /\ Len(C7_Core(host)) > 3 -> 8
    [] /\ ~C7_Within(C7_Flat(name), C7_Core(host))
       /\ ~(C7_Within(C7_Core(host), C7_Flat(name)) /\ Len(C7_Core(host)) > 3)
       /\ Len(C7_FirstWord(name)) > 3
       /\ C7_Within(C7_FirstWord(name), C7_Core(host)) -> 7
    [] OTHER -> 0

C7_AcmeCorp == <<"A","C","M","E"," ","C","O","R","P">>

\* C7: match_domain_score returns the value of the first rule that applies:
\* 1.0 flat name equals core domain; 0.9 flat name within core domain; 0.8
\* core domain within flat name and longer than 3; 0.7 first word longer than
\* 3 and within core domain; else 0.0.  For "ACME CORP": acmecorp.com 1.0,
\* acmecorpindustries.com 0.9, acme.com 0.8, acme-global.com 0.7.
C7_DomainScoreRules ==
  cstage = "scored" =>
    /\ cdom * 10 = C7_Rules(get_domain(cand.s), cname) * ScoreOne
    /\ (cname = C7_AcmeCorp /\ cand.s = <<"h","t","t","p","s",":","/","/","a","c","m","e","c","o","r","p",".","c","o","m">>) => cdom * 10 = 10 * ScoreOne
    /\ (cname = C7_AcmeCorp /\ cand.s = <<"h","t","t","p","s",":","/","/","w","w","w",".","a","c","m","e","c","o","r","p","i","n","d","u","s","t","r","i","e","s",".","c","o","m">>) => cdom * 10 = 9 * ScoreOne
    /\ (cname = C7_AcmeCorp /\ cand.s = <<"h","t","t","p","s",":","/","/","a","c","m","e",".","c","o","m">>) => cdom * 10 = 8 * ScoreOne
    /\ (cname = C7_AcmeCorp /\ cand.s = <<"h","t","t","p","s",":","/","/","a","c","m","e","-","g","l","o","b","a","l",".","c","o","m">>) => cdom * 10 = 7 * ScoreOne

\* acme-global.com was scored against "ACME CORP" by the last rule
C7_Witness ==
  /\ cstage = "scored"
  /\ cname = C7_AcmeCorp
  /\ cand.s = <<"h","t","t","p","s",":","/","/","a","c","m","e","-","g","l","o","b","a","l",".","c","o","m">>
  /\ cdom * 10 = 7 * ScoreOne

-----------------------------------------------------------------------------
(* Claims about the resolvers, checked under SpecProc                       *)

C1_SevenFields ==
  <<"Raw Company Name", "Normalized Company Name", "Website", "Industry",
    "Third Party Data Source Link", "Remark", "Confidence Score">>

C1_FieldNames(r) == [i \in DOMAIN r |-> r[i][1]]

\* C1: every call of process or process_premium, whatever the searches, the
\* page fetches and the reasoning call return or raise, ends without raising
\* and returns a record with exactly the seven fields, in their fixed order.
C1_AlwaysSevenFields ==
  /\ pc # "raised"
  /\ pc = "done" => C1_FieldNames(rec) = C1_SevenFields

C2_Field(r, k) == r[CHOOSE i \in DOMAIN r : r[i][1] = k][2]

C2_Empty(v) == v = PyStr(<<>>)

\* the guesses that scored above 0.7, and the search URLs that were scored
C2_AcceptedGuesses ==
  {i \in DOMAIN evals : evals[i].stage = "guess" /\ evals[i].score > Tenths(7)}

C2_SearchEvals == {i \in DOMAIN evals : evals[i].stage = "search"}

C2_TopSearch ==
  {i \in C2_SearchEvals : \A j \in C2_SearchEvals : evals[j].score <= evals[i].score}

\* the best candidate: the accepted guess, else the first search URL with
\* the highest score; 0 if there is none
C2_Best ==
  IF C2_AcceptedGuesses # {} THEN Min(C2_AcceptedGuesses)
  ELSE IF C2_TopSearch # {} THEN Min(C2_TopSearch)
  ELSE 0

C2_BestScore == IF C2_Best = 0 THEN 0 ELSE evals[C2_Best].score

\* C2: in every record process returns for a non-empty normalized name,
\* Website is non-empty exactly when the best score is at least 0.5; an empty
\* Website comes with the remark "Official site not found."; a non-empty one
\* is the URL of the best candidate and the remark names its stage.
C2_WebsiteRule ==
  (pc = "done" /\ mode = "free" /\ norm # <<>>) =>
    LET website == C2_Field(rec, "Website")
        remark == C2_Field(rec, "Remark")
    IN  /\ ~C2_Empty(website) <=> C2_BestScore >= Tenths(5)
        /\ ~C2_Empty(website) <=> best_score >= Tenths(5)
        /\ C2_Empty(website) => remark = "Official site not found."
        /\ ~C2_Empty(website) =>
             /\ website = evals[C2_Best].url
             /\ evals[C2_Best].stage = "guess" => remark = "Verified Official (Domain Guess)."
             /\ evals[C2_Best].stage = "search" => remark = "Verified Official (API Match)."

\* a record whose best score is exactly 0.5: Website holds the search URL
C2_Witness ==
  /\ pc = "done"
  /\ mode = "free"
  /\ norm # <<>>
  /\ C2_BestScore = Tenths(5)
  /\ C2_Field(rec, "Website") = PyStr(<<"h","t","t","p","s",":","/","/","o","t","h","e","r",".","c","o","m">>)
  /\ C2_Field(rec, "Remark") = "Verified Official (API Match)."

C4_NoLetterOrDigit(v) ==
  \/ ~v.isStr
  \/ \A i \in DOMAIN v.s :
       v.s[i] \notin (Range(LowerLetters) \cup Range(UpperLetters) \cup Range(Digits))

\* C4: for a raw name that normalizes to the empty string (empty, white
\* space only, no string, or without letter or digit), process returns at
\* once the record of Raw Company Name and Remark "Invalid" and nothing else,
\* having evaluated no candidate, fetched no page and queried no search.
C4_InvalidReturnsAtOnce ==
  (mode = "free" /\ pc # "start"
     /\ (C4_NoLetterOrDigit(raw) \/ norm = <<>>)) =>
    /\ pc = "done"
    /\ rec = << <<"Raw Company Name", raw>>, <<"Remark", "Invalid">> >>
    /\ evals = <<>>
    /\ fetches = 0
    /\ searches = 0

\* process has returned for a name of white space only
C4_Witness ==
  /\ mode = "free"
  /\ pc = "done"
  /\ raw = PyStr(<<" "," ">>)
  /\ C1_FieldNames(rec) = <<"Raw Company Name", "Remark">>

C5_Failed == ai_reply.kind \in {"raises", "unparsable", "nonobject"}

\* C5: when the reasoning call raises or its reply is no parsable JSON
\* object, process_premium does not raise and returns the raw name, its
\* strict_normalize_name, empty Website, Industry and Third Party Data Source
\* Link, Confidence Score "0" and the remark "AI Error: " with the message.
C5_ReasoningFailure ==
  (mode = "premium" /\ C5_Failed) =>
    /\ pc = "done"
    /\ rec = << <<"Raw Company Name", raw>>,
                <<"Normalized Company Name", strict_normalize_name(raw)>>,
                <<"Website", PyStr(<<>>)>>,
                <<"Industry", "">>,
                <<"Third Party Data Source Link", PyStr(<<>>)>>,
                <<"Remark", "AI Error: " \o ai_reply.message>>,
                <<"Confidence Score", "0">> >>

\* the reply of the reasoning call did not parse, for a name with a suffix
C5_Witness ==
  /\ mode = "premium"
  /\ pc = "done"
  /\ ai_reply.kind = "unparsable"
  /\ raw = PyStr(<<"A","c","m","e"," ","C","o","r","p">>)
  /\ C2_Field(rec, "Remark") = "AI Error: Expecting value: line 1 column 1 (char 0)"

C10_NoGuessQualified ==
  \A i \in DOMAIN evals : evals[i].stage = "guess" => evals[i].score <= Tenths(7)

C10_IsSearch(e) == e.stage = "search"

C10_SearchUrls ==
  LET scored == SelectSeq(evals, C10_IsSearch)
  IN  [i \in DOMAIN scored |-> scored[i].url]

\* the candidates with the highest score of all that were evaluated
C10_Top ==
  {i \in DOMAIN evals : \A j \in DOMAIN evals : evals[j].score <= evals[i].score}

\* C10: when no guess scores above 0.7, process queries the free search with
\* the normalized name, scores only the first 3 URLs in response order, and
\* reports as winner (Website candidate, Industry, Confidence Score to two
\* decimals) the highest-scoring candidate of all that were evaluated,
\* guesses included, the earlier one on a tie.
C10_WinnerOverAll ==
  (pc = "done" /\ mode = "free" /\ norm # <<>> /\ C10_NoGuessQualified) =>
    LET winner == evals[Min(C10_Top)]
        website == C2_Field(rec, "Website")
    IN  /\ searches = 1
        /\ query = norm
        /\ C10_SearchUrls = SubSeq(urls, 1, Min({3, Len(urls)}))
        /\ C2_Field(rec, "Confidence Score") = Fmt2(winner.score)
        /\ C2_Field(rec, "Industry") = winner.industry
        /\ ~C2_Empty(website) => website = winner.url

C11_NoFetchSucceeded == \A i \in DOMAIN evals : ~evals[i].page_ok

\* the evaluations that can stand behind the Website of the record
C11_Winners(website) ==
  {i \in DOMAIN evals : evals[i].url = website /\ evals[i].score = best_score}

\* C11 as stated: Website is non-empty only for a candidate whose page fetch
\* succeeded; when every page fetch of the run failed, Website is empty and
\* the remark is "Official site not found.".
C11_OnlyFetchedSites ==
  (pc = "done" /\ mode = "free" /\ norm # <<>>) =>
    LET website == C2_Field(rec, "Website")
    IN  /\ ~C2_Empty(website) => \E i \in C11_Winners(website) : evals[i].page_ok
        /\ C11_NoFetchSucceeded =>
             /\ C2_Empty(website)
             /\ C2_Field(rec, "Remark") = "Official site not found."

\* C11: Website is non-empty only for a candidate whose page fetch succeeded
\* or whose domain score alone, which is what a failed fetch leaves it, is at
\* least 0.5; when every page fetch of the run failed, Website is empty, with
\* the remark "Official site not found.", exactly when no guess has a domain
\* score above 0.7 and no scored search URL has a score of at least 0.5.
C11_FetchedOrDomainScore ==
  (pc = "done" /\ mode = "free" /\ norm # <<>>) =>
    LET website == C2_Field(rec, "Website")
    IN  /\ ~C2_Empty(website) =>
             \E i \in C11_Winners(website) :
               \/ evals[i].page_ok
               \/ /\ evals[i].score = match_domain_score(clean_url(evals[i].url), norm)
                  /\ evals[i].score >= Tenths(5)
        /\ C11_NoFetchSucceeded =>
             /\ C2_Empty(website) <=>
                  \A i \in DOMAIN evals :
                    /\ evals[i].stage = "guess" => evals[i].score <= Tenths(7)
                    /\ evals[i].stage = "search" => evals[i].score < Tenths(5)
             /\ C2_Empty(website) => C2_Field(rec, "Remark") = "Official site not found."

\* the page of the first guess could not be fetched, and the guess is returned
C11_Witness ==
  /\ pc = "done"
  /\ mode = "free"
  /\ C11_NoFetchSucceeded
  /\ fetches = 1
  /\ C2_Field(rec, "Website") = PyStr(<<"h","t","t","p","s",":","/","/","w","w","w",".","a","c","m","e",".","c","o","m">>)
  /\ C2_Field(rec, "Remark") = "Verified Official (Domain Guess)."

\* https://www.<guess>.com for k = 1 and https://<guess>.com for k = 2
C12_GuessUrl(k) ==
  LET flat == Lower(SelectSeq(norm, NotSpace))
  IN  PyStr(<<"h","t","t","p","s",":","/","/">> \o (IF k = 1 THEN <<"w","w","w",".">> ELSE <<>>) \o flat \o <<".","c","o","m">>)

C12_GuessEvals == {i \in DOMAIN evals : evals[i].stage = "guess"}

\* the run went on after evaluation i: to the next guess or to the search
C12_WentOn(i) ==
  \/ i = 1 /\ pc = "guess"
  \/ i = 1 /\ 2 \in C12_GuessEvals
  \/ i = 2 /\ (pc = "search" \/ searches = 1)

\* C12: process evaluates https://www.<guess>.com first and
\* https://<guess>.com second; the first guess scoring strictly above 0.7 is
\* the winner with the tag "Domain Guess", and after it no further guess is
\* evaluated and the free search is not queried; a guess scoring 0.7 or less
\* is not accepted.
C12_GuessOrderAndCut ==
  (mode = "free" /\ norm # <<>>) =>
    /\ \A i \in C12_GuessEvals : i <= 2 /\ evals[i].url = C12_GuessUrl(i)
    /\ pc \in {"search", "api", "return", "done"} => 1 \in C12_GuessEvals
    /\ \A i \in C12_GuessEvals :
         evals[i].score > Tenths(7) =>
           /\ Len(evals) = i
           /\ searches = 0
           /\ pc \in {"return", "done"}
           /\ best_cand = evals[i].url
           /\ best_score = evals[i].score
           /\ best_reason = "Domain Guess"
           /\ pc = "done" =>
                /\ C2_Field(rec, "Website") = evals[i].url
                /\ C2_Field(rec, "Remark") = "Verified Official (Domain Guess)."
    /\ \A i \in C12_GuessEvals :
         evals[i].score <= Tenths(7) =>
           /\ C12_WentOn(i)
           /\ best_reason = "Domain Guess" =>
                \E j \in C12_GuessEvals : j > i /\ evals[j].score > Tenths(7)

\* the first guess was parked, the second was accepted, no search was made
C12_Witness ==
  /\ mode = "free"
  /\ pc = "done"
  /\ Len(evals) = 2
  /\ evals[1].url = PyStr(<<"h","t","t","p","s",":","/","/","w","w","w",".","a","c","m","e",".","c","o","m">>)
  /\ evals[1].score = 0
  /\ evals[2].url = PyStr(<<"h","t","t","p","s",":","/","/","a","c","m","e",".","c","o","m">>)
  /\ evals[2].score > Tenths(7)
  /\ searches = 0
  /\ C2_Field(rec, "Website") = PyStr(<<"h","t","t","p","s",":","/","/","a","c","m","e",".","c","o","m">>)
  /\ C2_Field(rec, "Remark") = "Verified Official (Domain Guess)."

-----------------------------------------------------------------------------
(* More claims about the candidate scorer, checked under SpecScore          *)

\* a valid candidate that is neither blocked nor third-party was verified
C13_Applies ==
  /\ cstage = "verified"
  /\ clean_url(cand) # <<>>
  /\ \A b \in Range(BLOCKED_OFFICIAL) : ~Contains(get_domain(clean_url(cand)), b)
  /\ \A t \in Range(THIRD_PARTY_DOMAINS) : ~Contains(get_domain(clean_url(cand)), t)

C13_FetchFailed == cresp.raises \/ cresp.status # 200

C13_Parked ==
  \E k \in Range(parked_keywords) :
    Contains(Lower(Strip(cresp.title) \o <<" ">> \o Strip(cresp.description)), k)

C13_DomainScore == match_domain_score(clean_url(cand), cname)

C13_TitleScore == fuzzy_match_score(cname, CleanTitle(Strip(cresp.title)))

C13_Larger(a, b) == IF a < b THEN b ELSE a

\* C13: for a valid candidate that is neither blocked nor third-party,
\* verify_candidate returns the domain score alone when the fetch failed,
\* score 0 with reason "Parked" when the fetched title and description hold
\* a parked marker, and otherwise the larger of domain score and title
\* score, raised to at least 0.9 when the domain score is above 0.7, else to
\* at least 0.8 when domain score and title score are both above 0.4; the
\* score is within [0, 1].
C13_ScoreRules ==
  C13_Applies =>
    LET d == C13_DomainScore
    IN  /\ C13_FetchFailed => cres.score = d
        /\ (~C13_FetchFailed /\ C13_Parked) => (cres.score = 0 /\ cres.reason = "Parked")
        /\ (~C13_FetchFailed /\ ~C13_Parked) =>
             LET t == C13_TitleScore
                 top == C13_Larger(d, t)
             IN  cres.score = IF d > Tenths(7) THEN C13_Larger(top, Tenths(9))
                              ELSE IF d > Tenths(4) /\ t > Tenths(4) THEN C13_Larger(top, Tenths(8))
                              ELSE top
        /\ cres.score >= 0
        /\ cres.score <= ScoreOne

\* domain score 0.7 and a title score between 0.4 and 0.8: raised to 0.8
C13_Witness ==
  /\ C13_Applies
  /\ ~C13_FetchFailed
  /\ ~C13_Parked
  /\ C13_DomainScore = Tenths(7)
  /\ C13_TitleScore > Tenths(4)
  /\ C13_TitleScore < Tenths(8)
  /\ cres.score = Tenths(8)

\* C14: for every valid candidate URL whose domain matches an entry of the
\* third-party-data-source list, verify_candidate returns score 0.2 with
\* reason "Third Party" and does not fetch the page.
C14_ThirdPartyShortCircuit ==
  (/\ cstage = "verified"
   /\ clean_url(cand) # <<>>
   /\ \E t \in Range(THIRD_PARTY_DOMAINS) : Contains(get_domain(clean_url(cand)), t))
  => /\ cres.score = Tenths(2)
     /\ cres.reason = "Third Party"
     /\ ~cres.fetched

\* the host is the entry, or a host under it
C15_Under(host, entry) == host = entry \/ EndsWith(host, <<".">> \o entry)

\* C15: verify_candidate returns reason "Blocked" only for a candidate whose
\* host is a blocked-official entry or a host under one; a host that only
\* contains an entry inside a longer label is scored by the domain and page
\* rules.
C15_BlockedOnlyUnderEntry ==
  (cstage = "verified" /\ cres.reason = "Blocked") =>
    \E b \in Range(BLOCKED_OFFICIAL) : C15_Under(get_domain(clean_url(cand)), b)

-----------------------------------------------------------------------------
(* More claims about the resolvers, checked under SpecProc                  *)

C16_SearchFailed == ddg_reply.raises \/ ~ddg_reply.parsable

C16_FetchFailed(e) == e.fetched /\ ~e.page_ok

\* C16: in the free pipeline a failed network step is not raised to the
\* caller and is not retried, and it adds nothing: a search that is
\* unreachable, times out or answers what does not parse gives no candidate,
\* and a page fetch that raises, times out or answers non-200 gives the
\* candidate a page score of zero, its domain score standing alone.
C16_FailedStepsDegrade ==
  mode = "free" =>
    /\ pc # "raised"
    /\ searches <= 1
    /\ fetches = Cardinality({i \in DOMAIN evals : evals[i].fetched})
    /\ (searches = 1 /\ C16_SearchFailed) =>
         /\ urls = <<>>
         /\ \A i \in DOMAIN evals : evals[i].stage # "search"
         /\ pc \in {"return", "done"}
    /\ \A i \in DOMAIN evals :
         C16_FetchFailed(evals[i]) =>
           evals[i].score = match_domain_score(clean_url(evals[i].url), norm)

\* the search answered what does not parse: no candidate, nothing found
C16_Witness ==
  /\ mode = "free"
  /\ pc = "done"
  /\ searches = 1
  /\ ~ddg_reply.raises
  /\ ~ddg_reply.parsable
  /\ urls = <<>>
  /\ C2_Field(rec, "Website") = PyStr(<<>>)
  /\ C2_Field(rec, "Remark") = "Official site not found."

C17_HasName == \E i \in DOMAIN rec : rec[i][1] = "Normalized Company Name"

C17_NameChar(c) == c \in Range(UpperLetters) \cup Range(Digits) \cup {" "}

\* an upper-case string over [A-Z0-9 ] without leading, trailing or doubled
\* spaces that ends in no legal-entity suffix
C17_NormalizedName(n) ==
  /\ \A i \in DOMAIN n : C17_NameChar(n[i])
  /\ n # <<>> => (n[1] # " " /\ n[Len(n)] # " ")
  /\ \A i \in 1..(Len(n) - 1) : ~(n[i] = " " /\ n[i + 1] = " ")
  /\ \A k \in DOMAIN LEGAL_SUFFIXES : ~EndsWith(n, LEGAL_SUFFIXES[k])

\* C17: the Normalized Company Name of every record process or
\* process_premium returns, on the success path and on the failure path and
\* whatever name the reasoning call supplied or left out, is a
\* NormalizedName and equals its own strict_normalize_name.
C17_NameIsNormalized ==
  (pc = "done" /\ C17_HasName) =>
    LET n == C2_Field(rec, "Normalized Company Name")
    IN  /\ C17_NormalizedName(n)
        /\ strict_normalize_name(PyStr(n)) = n

\* the reasoning call supplied a name with punctuation and a suffix
C17_Witness ==
  /\ mode = "premium"
  /\ pc = "done"
  /\ ai_reply.kind = "object"
  /\ "normalized_name" \in ai_reply.data.has
  /\ ai_reply.data.normalized_name = PyStr(<<"A","c","m","e"," ","H","o","l","d","i","n","g","s",","," ","I","n","c",".">>)
  /\ C2_Field(rec, "Normalized Company Name") = <<"A","C","M","E"," ","H","O","L","D","I","N","G","S">>

-----------------------------------------------------------------------------
(* Claims about infer_industry_from_text, checked under SpecInd             *)

C18_Occurs(kw, text) ==
  \E i \in 1..(Len(text) - Len(kw) + 1) : SubSeq(text, i, i + Len(kw) - 1) = kw

\* the keywords of the list, by position, that occur in the lower-cased text
C18_Found == {k \in DOMAIN INDUSTRY_KEYWORDS : C18_Occurs(INDUSTRY_KEYWORDS[k].kw, Lower(itext))}

C18_Semiconductor == <<"s","e","m","i","c","o","n","d","u","c","t","o","r">>

\* C18: infer_industry_from_text returns the label paired with the first
\* keyword of INDUSTRY_KEYWORDS, in list order, that occurs in the
\* lower-cased text, and "" if none occurs; "semiconductor" wins over the
\* later "manufactur" and "technology".
C18_FirstKeywordWins ==
  istage = "inferred" =>
    /\ C18_Found = {} => ilabel = ""
    /\ \A k \in C18_Found :
         (\A j \in C18_Found : k <= j) => ilabel = INDUSTRY_KEYWORDS[k].label
    /\ C18_Occurs(C18_Semiconductor, Lower(itext)) => ilabel = "Semiconductors"

\* a later keyword comes first in the text, the earlier keyword gives the label
C18_Witness ==
  /\ istage = "inferred"
  /\ itext = <<"m","a","n","u","f","a","c","t","u","r","i","n","g"," ","S","e","m","i","c","o","n","d","u","c","t","o","r">>
  /\ ilabel = "Semiconductors"

=============================================================================
